---- MODULE Spec2Model ----
(***************************************************************************)
(* Model of the bar builders of src/tools/bars.py:                         *)
(*   time_to_volume_bars, time_to_dollar_bars, time_to_tick_bars,          *)
(*   with their helpers _check_cols, _typical_price and _aggregate_chunk.  *)
(*                                                                         *)
(* One call of a builder is one behaviour: the arguments are drawn in      *)
(* Init, the entry action checks the columns and sorts the frame, every    *)
(* iteration of the accumulation loop is one step, then the tail, then the *)
(* construction of the output frame.                                       *)
(*                                                                         *)
(* Numbers.  Prices, volumes and trade counts are floats in the code; the  *)
(* model keeps them as integers and the dollar measure as an exact         *)
(* fraction (numerator over BasisDenominator), so rounding of IEEE doubles *)
(* and NaN are not modelled.  Indices i and start are 0-based as in the    *)
(* code; a sequence s of the model holds row k of the frame at s[k + 1].   *)
(***************************************************************************)
EXTENDS Integers, Sequences, FiniteSets, TLC

VARIABLES
    df,           \* the frame passed in: a sequence of rows, in the caller's order
    columns,      \* df.columns
    mode,         \* which builder is called: "volume", "dollar" or "tick"
    threshold,    \* vol_threshold / dollar_threshold / ticks_per_bar
    keep_tail,    \* keep_tail
    price_basis,  \* price_basis (time_to_dollar_bars)
    pc,           \* "call", "loop", "frame", "done", "error"
    sdf,          \* df after df.sort_index()
    meas,         \* vols / dv / ticks: the accumulated measure per row (numerators)
    i,            \* loop index
    start,        \* first row of the run being accumulated
    cum,          \* the accumulator
    bars,         \* the list of aggregated chunks
    runs,         \* history: the slice <<start, stop>> of each chunk (df.iloc[start:stop])
    out,          \* the returned DataFrame: rows indexed by ts
    err           \* the exception raised, "" when none

\* One call of the backtest code (src/services/api) is one behaviour too; its
\* variables rest at their idle values during a call of a bar builder.
VARIABLES
    simulator,    \* "engine" (run_backtest), "sma_cross" or "buy_hold" (app.py), "" when idle
    close,        \* df["close"]: the closes of the loaded frame, positive integers
    day_step,     \* days between two bars of the index: 0 is an intraday index
    lookback,     \* engine: the number of bars of the train portion
    strategy,     \* engine: req.strategy
    forecaster,   \* engine: which forecast model.predict returns
    timeframe,    \* req.timeframe: the integer before the unit, and the unit
    cash_start,   \* req.initial_cash / req.cash_start
    sma_fast,     \* fast window
    sma_slow,     \* slow window
    spc,          \* position in the call
    price,        \* the simulated prices: test (engine), df["close"] (app.py)
    forecast,     \* engine: the forecast over the test portion
    pos,          \* engine: the series returned by generate_positions
    long,         \* app.py: the shifted signal the bookkeeping loop reads
    at,           \* app.py: 0-based index of the bar the loop is at
    units,        \* app.py: units held
    cash,         \* app.py: cash held
    equity,       \* the equity series, one fraction per bar
    returns,      \* engine: strat_ret; app.py: rets of metrics_from_equity
    metrics,      \* the metrics returned
    serr          \* the exception raised, "" when none

simvars == <<simulator, close, day_step, lookback, strategy, forecaster, timeframe,
             cash_start, sma_fast, sma_slow, spc, price, forecast, pos, long, at, units, cash,
             equity, returns, metrics, serr>>

\* The command-line runner (src/tools/local_cli.py) runs the backtest functions
\* of app.py on the frame of a CSV file; it shares the variables of a backtest.
VARIABLES
    eqidx         \* local_cli: the index of the series the strategy function returned

clivars == <<eqidx>>

\* POST /backtest of app.py: the endpoint around the backtest functions.
VARIABLES
    epc,          \* position in the endpoint, "idle" outside a request
    bt_table,     \* the rows of TABLE_BT: [id, metrics_json]
    calls,        \* history: the collaborators called by the request, in order
    preds,        \* the series model_predict returned
    rmse,         \* the mean of the squared errors under the root of rmse
    response,     \* the payload returned, <<>> before
    nreq          \* the number of requests answered so far

apivars == <<epc, bt_table, calls, preds, rmse, response, nreq>>

\* fetch_and_load_symbol_tf of the ingest jobs (src/services/ingest), for one
\* symbol and timeframe.  Timestamps are counted in bars of the timeframe.
VARIABLES
    variant,      \* "ccxt" (ccxt_ingest.py) or "binance" (binance_ingest.py), "" when idle
    cfg,          \* the environment: MAX_PAGES, PAGE_LIMIT, FORCE_FROM, BACKFILL_START,
                  \* BACKFILL_DAYS, the current time and the last bar the exchange has
    table,        \* the timestamps of the rows of the table, in the order of loading
    last,         \* last_ts_in_bq(bq, symbol, timeframe)
    since_ms,     \* the since of the next fetch_ohlcv
    pages,        \* pages loaded in this run
    ipc,          \* position in the job
    retries,      \* history: NetworkErrors met, counted up to MaxRetries
    asked         \* history: the since of every page that was loaded

ingvars == <<variant, cfg, table, last, since_ms, pages, ipc, retries, asked>>
extvars == <<clivars, apivars, ingvars>>

vars == <<df, columns, mode, threshold, keep_tail, price_basis,
          pc, sdf, meas, i, start, cum, bars, runs, out, err, simvars, extvars>>

inputs == <<df, columns, mode, threshold, keep_tail, price_basis>>

\* trades_col: str = "trades", the default the callers rely on
trades_col == "trades"

(***************************************************************************)
(* Bounds of the checked inputs.                                           *)
(***************************************************************************)
MaxLen == 3          \* rows of a frame whose measures vary freely
MaxVol == 2          \* volume / trades of one row
MaxThreshold == 3    \* largest threshold
MaxOhlcLen == 2      \* rows of a frame whose four prices vary freely

Prices == {1, 2}
Thresholds == (0 - 1)..MaxThreshold
OHLCV == {"open", "high", "low", "close", "volume"}
Bases == {"close", "hlc3", "ohlc4", "vwap"}

(***************************************************************************)
(* Helpers on sequences.                                                   *)
(***************************************************************************)
RECURSIVE SeqSum(_)
SeqSum(s) == IF s = <<>> THEN 0 ELSE s[1] + SeqSum(Tail(s))

SeqMax(s) == CHOOSE x \in {s[k] : k \in 1..Len(s)} : \A k \in 1..Len(s) : s[k] <= x
SeqMin(s) == CHOOSE x \in {s[k] : k \in 1..Len(s)} : \A k \in 1..Len(s) : x <= s[k]

Column(frame, c) == [k \in 1..Len(frame) |-> frame[k][c]]

\* df.iloc[a:b]
ILoc(frame, a, b) == SubSeq(frame, a + 1, b)

\* df.sort_index(): the rows in ascending order of ts.  The order of rows with
\* equal ts is the sort algorithm's choice, so every order is a possible result.
SortIndexResults(frame) ==
    LET n == Len(frame)
        perms == {p \in [1..n -> 1..n] : \A a, b \in 1..n : a # b => p[a] # p[b]}
    IN  IF \A k \in 1..(n - 1) : frame[k].ts < frame[k + 1].ts
        THEN {frame}
        ELSE {[k \in 1..n |-> frame[p[k]]] :
                p \in {q \in perms :
                         \A a, b \in 1..n : a < b => frame[q[a]].ts <= frame[q[b]].ts}}

(***************************************************************************)
(* _check_cols, _typical_price                                             *)
(***************************************************************************)
\* _check_cols(df, needed) raises ValueError when a needed column is missing
MissingCols(cols, needed) == needed \ cols

\* time_to_tick_bars: "if trades_col not in df.columns: raise ValueError"
TradesColMissingAlways(cols, col) == FALSE
TradesColMissing(cols, col) == col \notin cols

\* _typical_price: "if 'vwap' not in df.columns: raise ValueError"
VwapMissing(cols, basis) == basis = "vwap" /\ "vwap" \notin cols

\* _typical_price as a fraction: BasisNumerator / BasisDenominator
BasisNumerator(row, basis) ==
    CASE basis = "close" -> row.close
      [] basis = "hlc3"  -> row.high + row.low + row.close
      [] basis = "ohlc4" -> row.open + row.high + row.low + row.close
      [] basis = "vwap"  -> row.vwap

BasisDenominator(basis) ==
    CASE basis = "hlc3"  -> 3
      [] basis = "ohlc4" -> 4
      [] OTHER           -> 1

(***************************************************************************)
(* _aggregate_chunk                                                        *)
(***************************************************************************)
AggregateFirstHigh(chunk) ==
    [open       |-> chunk[1].open,
     high       |-> chunk[1].high,
     low        |-> SeqMin(Column(chunk, "low")),
     close      |-> chunk[Len(chunk)].close,
     volume     |-> SeqSum(Column(chunk, "volume")),
     n_src_bars |-> Len(chunk),
     ts_open    |-> chunk[1].ts,
     ts_close   |-> chunk[Len(chunk)].ts]

AggregateTsOpen(chunk) ==
    [open       |-> chunk[1].open,
     high       |-> SeqMax(Column(chunk, "high")),
     low        |-> SeqMin(Column(chunk, "low")),
     close      |-> chunk[Len(chunk)].close,
     volume     |-> SeqSum(Column(chunk, "volume")),
     n_src_bars |-> Len(chunk),
     ts_open    |-> chunk[1].ts,
     ts_close   |-> chunk[1].ts]

AggregateLastVolume(chunk) ==
    [open       |-> chunk[1].open,
     high       |-> SeqMax(Column(chunk, "high")),
     low        |-> SeqMin(Column(chunk, "low")),
     close      |-> chunk[Len(chunk)].close,
     volume     |-> chunk[Len(chunk)].volume,
     n_src_bars |-> Len(chunk),
     ts_open    |-> chunk[1].ts,
     ts_close   |-> chunk[Len(chunk)].ts]

\* the callers never pass an empty chunk (start <= i, start < n), so the
\* "if chunk.empty: return {}" branch is not taken
_aggregate_chunk(chunk) ==
    [open       |-> chunk[1].open,
     high       |-> SeqMax(Column(chunk, "high")),
     low        |-> SeqMin(Column(chunk, "low")),
     close      |-> chunk[Len(chunk)].close,
     volume     |-> SeqSum(Column(chunk, "volume")),
     n_src_bars |-> Len(chunk),
     ts_open    |-> chunk[1].ts,
     ts_close   |-> chunk[Len(chunk)].ts]

\* time_to_tick_bars: agg["n_ticks"] = float(cum)
WithTicks(agg, tick, c) == IF tick THEN agg @@ [n_ticks |-> c] ELSE agg

(***************************************************************************)
(* The accumulation loop, the tail and the output frame, as functions of   *)
(* the loop state st = [i, start, cum, bars, runs].                        *)
(***************************************************************************)
\* "cum = 0.0" after an emitted bar
ResetCarry(c, thr) == c - thr
ResetCum(c, thr) == 0

\* "start = i + 1" after an emitted bar
NextStartSame(k) == k
NextStart(k) == k + 1

\* "if cum >= threshold": cum is a numerator over den
CrossesExactly(c, thr, den) == c = thr * den
CrossesStrictly(c, thr, den) == c > thr * den
Crosses(c, thr, den) == c >= thr * den

LoopInit == [i |-> 0, start |-> 0, cum |-> 0, bars |-> <<>>, runs |-> <<>>]

\* one iteration "for i in range(n)" on the sorted frame src with measures m
LoopBody(st, src, m, thr, den, tick) ==
    LET c == st.cum + m[st.i + 1]
    IN  IF Crosses(c, thr, den)
        THEN [i     |-> st.i + 1,
              start |-> NextStart(st.i),
              cum   |-> ResetCum(c, thr * den),
              bars  |-> Append(st.bars,
                               WithTicks(_aggregate_chunk(ILoc(src, st.start, st.i + 1)), tick, c)),
              runs  |-> Append(st.runs, <<st.start, st.i + 1>>)]
        ELSE [st EXCEPT !.i = st.i + 1, !.cum = c]

\* "if keep_tail and start < n"
TailAlways(keep, s, n) == s < n
TailOffByOne(keep, s, n) == keep /\ s < n - 1
TailKept(keep, s, n) == keep /\ s < n

TailStep(st, src, keep, tick) ==
    IF TailKept(keep, st.start, Len(src))
    THEN [st EXCEPT
            !.bars = Append(st.bars,
                            WithTicks(_aggregate_chunk(ILoc(src, st.start, Len(src))), tick, st.cum)),
            !.runs = Append(st.runs, <<st.start, Len(src)>>)]
    ELSE st

\* out = pd.DataFrame(bars); out.index = out["ts_close"]; drop ts_open, ts_close
DropTs(b) == [f \in (DOMAIN b) \ {"ts_open", "ts_close"} |-> b[f]]
BuildFrame(bs) == [k \in 1..Len(bs) |-> DropTs(bs[k]) @@ [ts |-> bs[k].ts_close]]

RECURSIVE RunLoop(_, _, _, _, _, _)
RunLoop(st, src, m, thr, den, tick) ==
    IF st.i >= Len(src) THEN st
    ELSE RunLoop(LoopBody(st, src, m, thr, den, tick), src, m, thr, den, tick)

\* the whole builder after the column checks, on a sorted frame
BuildBars(src, m, thr, den, keep, tick) ==
    BuildFrame(TailStep(RunLoop(LoopInit, src, m, thr, den, tick), src, keep, tick).bars)

(***************************************************************************)
(* The calls that are checked.  A row is                                   *)
(*   [ts, open, high, low, close, volume, trades, vwap];                   *)
(* a column that `columns` does not hold is absent from the frame, and its *)
(* field of the row is 0 and never read by the code.                       *)
(***************************************************************************)
Row(t, o, h, l, c, v, tr, vw) ==
    [ts |-> t, open |-> o, high |-> h, low |-> l, close |-> c,
     volume |-> v, trades |-> tr, vwap |-> vw]

\* a fixed valid price path: the prices of row p when only the measures vary
PosRow(p, v, tr) ==
    IF p % 2 = 1 THEN Row(p, 2, 3, 2, 3, v, tr, 2)
                 ELSE Row(p, 3, 4, 1, 1, v, tr, 3)

SeqsUpTo(S, n) == UNION {[1..k -> S] : k \in 0..n}

\* volumes vary, timestamps ascending
VolumeFrames ==
    {[p \in DOMAIN vs |-> PosRow(p, vs[p], 0)] : vs \in SeqsUpTo(0..MaxVol, MaxLen)}

\* trades vary, the volume of row p is p
TradesFrames ==
    {[p \in DOMAIN ts |-> PosRow(p, p, ts[p])] : ts \in SeqsUpTo(0..MaxVol, MaxLen)}

\* the four prices vary (valid bars and invalid ones), every volume is 1
OhlcFrames ==
    {[p \in DOMAIN q |-> Row(p, q[p][1], q[p][2], q[p][3], q[p][4], 1, 0, q[p][1])] :
        q \in SeqsUpTo(Prices \X Prices \X Prices \X Prices, MaxOhlcLen)}

\* timestamps vary: unsorted and duplicated ones; row p has close p and volume 1
TsFrames ==
    {[p \in DOMAIN t |-> Row(t[p], p, p + 1, p, p, 1, 0, p)] :
        t \in SeqsUpTo(1..MaxLen, MaxLen)}

\* the example of the specification: the volumes 50 x 10, threshold 120
ExampleFrame == [p \in 1..10 |-> PosRow(p, 50, 0)]

\* no backtest is running
SimIdle ==
    /\ simulator = ""
    /\ close = <<>>
    /\ day_step = 0
    /\ lookback = 0
    /\ strategy = ""
    /\ forecaster = ""
    /\ timeframe = [head |-> 0, unit |-> ""]
    /\ cash_start = 0
    /\ sma_fast = 0
    /\ sma_slow = 0
    /\ spc = "idle"
    /\ price = <<>>
    /\ forecast = <<>>
    /\ pos = <<>>
    /\ long = <<>>
    /\ at = 0
    /\ units = <<0, 1>>
    /\ cash = <<0, 1>>
    /\ equity = <<>>
    /\ returns = <<>>
    /\ metrics = <<>>
    /\ serr = ""

\* the command-line runner is not running
CliIdle == eqidx = <<>>

\* no request is being served
ApiIdle ==
    /\ epc = "idle"
    /\ bt_table = <<>>
    /\ calls = <<>>
    /\ preds = <<>>
    /\ rmse = <<0, 1>>
    /\ response = <<>>
    /\ nreq = 0

\* no ingest job is running
IngestIdle ==
    /\ variant = ""
    /\ cfg = <<>>
    /\ table = <<>>
    /\ last = 0
    /\ since_ms = 0
    /\ pages = 0
    /\ ipc = "idle"
    /\ retries = 0
    /\ asked = <<>>

ExtIdle == CliIdle /\ ApiIdle /\ IngestIdle

\* the arguments of a call, and the variables as the call finds them
Call(f, cols, m, thr, keep, basis) ==
    /\ df = f
    /\ columns = cols
    /\ mode = m
    /\ threshold = thr
    /\ keep_tail = keep
    /\ price_basis = basis
    /\ pc = "call"
    /\ sdf = <<>>
    /\ meas = <<>>
    /\ i = 0
    /\ start = 0
    /\ cum = 0
    /\ bars = <<>>
    /\ runs = <<>>
    /\ out = <<>>
    /\ err = ""
    /\ SimIdle
    /\ ExtIdle

\* volume bars, and dollar bars on every price basis, of frames whose volumes vary
SegCalls ==
    \E f \in VolumeFrames, thr \in Thresholds, keep \in BOOLEAN :
        \/ Call(f, OHLCV \cup {"vwap"}, "volume", thr, keep, "hlc3")
        \/ \E b \in Bases : Call(f, OHLCV \cup {"vwap"}, "dollar", thr, keep, b)

\* tick bars of frames whose trade counts vary
TickCalls ==
    \E f \in TradesFrames, thr \in Thresholds, keep \in BOOLEAN :
        Call(f, OHLCV \cup {"trades"}, "tick", thr, keep, "hlc3")

\* volume and dollar bars of frames whose prices vary
OhlcCalls ==
    \E f \in OhlcFrames, thr \in 1..MaxThreshold, keep \in BOOLEAN,
       m \in {"volume", "dollar"} :
        Call(f, OHLCV, m, thr, keep, "close")

\* volume bars of frames whose timestamps vary
TsCalls ==
    \E f \in TsFrames, thr \in 1..MaxThreshold, keep \in BOOLEAN :
        Call(f, OHLCV, "volume", thr, keep, "hlc3")

ExampleCalls ==
    \E keep \in BOOLEAN : Call(ExampleFrame, OHLCV, "volume", 120, keep, "hlc3")

\* frames without a column the builder needs, and an unsupported price_basis
BadCalls ==
    \/ \E f \in TsFrames, thr \in {0, 1}, keep \in BOOLEAN,
          cols \in {OHLCV \ {"volume"}, (OHLCV \ {"close"}) \cup {"trades", "vwap"}},
          m \in {"volume", "dollar", "tick"}, b \in {"hlc3", "vwap"} :
            Call(f, cols, m, thr, keep, b)
    \/ \E f \in VolumeFrames, thr \in {0, 1}, keep \in BOOLEAN,
          m \in {"tick", "dollar"}, b \in {"vwap", "other"} :
            Call(f, OHLCV, m, thr, keep, b)

Init == SegCalls \/ TickCalls \/ OhlcCalls \/ TsCalls \/ ExampleCalls \/ BadCalls

(***************************************************************************)
(* The actions.                                                            *)
(***************************************************************************)
Raise(e) ==
    /\ pc' = "error"
    /\ err' = e
    /\ UNCHANGED <<extvars, simvars, inputs, sdf, meas, i, start, cum, bars, runs, out>>

\* the frame is sorted, the measure is taken, the loop variables are set
Enter(s, m) ==
    /\ sdf' = s
    /\ meas' = m
    /\ i' = LoopInit.i
    /\ start' = LoopInit.start
    /\ cum' = LoopInit.cum
    /\ bars' = LoopInit.bars
    /\ runs' = LoopInit.runs
    /\ pc' = "loop"
    /\ UNCHANGED <<extvars, simvars, inputs, out, err>>

\* time_to_volume_bars, up to the loop
CallVolumeBars ==
    /\ pc = "call"
    /\ mode = "volume"
    /\ \/ /\ MissingCols(columns, OHLCV) # {}
          /\ Raise("MissingColumn")
       \/ /\ MissingCols(columns, OHLCV) = {}
          /\ \E s \in SortIndexResults(df) : Enter(s, Column(s, "volume"))

\* time_to_dollar_bars, up to the loop
CallDollarBars ==
    /\ pc = "call"
    /\ mode = "dollar"
    /\ \/ /\ MissingCols(columns, OHLCV) # {}
          /\ Raise("MissingColumn")
       \/ /\ MissingCols(columns, OHLCV) = {}
          /\ VwapMissing(columns, price_basis)
          /\ Raise("MissingColumn")
       \/ /\ MissingCols(columns, OHLCV) = {}
          /\ price_basis \notin Bases
          /\ Raise("UnsupportedBasis")
       \/ /\ MissingCols(columns, OHLCV) = {}
          /\ ~VwapMissing(columns, price_basis)
          /\ price_basis \in Bases
          /\ \E s \in SortIndexResults(df) :
                Enter(s, [k \in 1..Len(s) |->
                            BasisNumerator(s[k], price_basis) * s[k].volume])

\* time_to_tick_bars, up to the loop
CallTickBars ==
    /\ pc = "call"
    /\ mode = "tick"
    /\ \/ /\ TradesColMissing(columns, trades_col)
          /\ Raise("MissingColumn")
       \/ /\ ~TradesColMissing(columns, trades_col)
          /\ MissingCols(columns, OHLCV) # {}
          /\ Raise("MissingColumn")
       \/ /\ ~TradesColMissing(columns, trades_col)
          /\ MissingCols(columns, OHLCV) = {}
          /\ \E s \in SortIndexResults(df) : Enter(s, Column(s, trades_col))

Den == IF mode = "dollar" THEN BasisDenominator(price_basis) ELSE 1

LoopState == [i |-> i, start |-> start, cum |-> cum, bars |-> bars, runs |-> runs]

SetLoopState(st) ==
    /\ i' = st.i
    /\ start' = st.start
    /\ cum' = st.cum
    /\ bars' = st.bars
    /\ runs' = st.runs

\* one iteration of "for i in range(n)"
LoopIteration ==
    /\ pc = "loop"
    /\ i < Len(sdf)
    /\ SetLoopState(LoopBody(LoopState, sdf, meas, threshold, Den, mode = "tick"))
    /\ UNCHANGED <<extvars, simvars, inputs, pc, sdf, meas, out, err>>

\* the loop is over: "if keep_tail and start < n"
LoopEnd ==
    /\ pc = "loop"
    /\ i = Len(sdf)
    /\ SetLoopState(TailStep(LoopState, sdf, keep_tail, mode = "tick"))
    /\ pc' = "frame"
    /\ UNCHANGED <<extvars, simvars, inputs, sdf, meas, out, err>>

\* out = pd.DataFrame(bars) ...; return out
Return ==
    /\ pc = "frame"
    /\ out' = BuildFrame(bars)
    /\ pc' = "done"
    /\ UNCHANGED <<extvars, simvars, inputs, sdf, meas, i, start, cum, bars, runs, err>>

Next ==
    \/ CallVolumeBars
    \/ CallDollarBars
    \/ CallTickBars
    \/ LoopIteration
    \/ LoopEnd
    \/ Return

Spec == Init /\ [][Next]_vars

(***************************************************************************)
(* What the claims speak of, stated without the loop's own variables.      *)
(***************************************************************************)
Done == pc = "done"
Tick == mode = "tick"
N == Len(sdf)

RECURSIVE RangeSum(_, _, _)
\* m[a] + ... + m[b] for the 0-based rows a..b
RangeSum(m, a, b) == IF b < a THEN 0 ELSE m[b + 1] + RangeSum(m, a, b - 1)

SetMax(S) == CHOOSE x \in S : \A y \in S : y <= x

RECURSIVE CloseSet(_, _, _)
\* the 0-based rows up to j at which a bar closes: row j closes a bar exactly when
\* the measure summed from the row after the previous close up to j reaches t
CloseSet(m, t, j) ==
    IF j < 0 THEN {}
    ELSE LET S == CloseSet(m, t, j - 1)
             p == IF S = {} THEN 0 - 1 ELSE SetMax(S)
         IN  IF RangeSum(m, p + 1, j) >= t THEN S \cup {j} ELSE S

\* the rows after the last close
RestFrom(m, t) ==
    LET S == CloseSet(m, t, Len(m) - 1) IN IF S = {} THEN 0 ELSE SetMax(S) + 1

\* the slices are contiguous from row 0, disjoint and non-empty
RunsContiguous ==
    /\ runs # <<>> => runs[1][1] = 0
    /\ \A k \in 1..Len(runs) : runs[k][1] < runs[k][2]
    /\ \A k \in 1..(Len(runs) - 1) : runs[k + 1][1] = runs[k][2]

Covered == IF runs = <<>> THEN 0 ELSE runs[Len(runs)][2]

RunsMatchOutput ==
    /\ Len(out) = Len(runs)
    /\ \A k \in 1..Len(out) : out[k].n_src_bars = runs[k][2] - runs[k][1]

ValidBar(b) ==
    /\ b.high >= b.open /\ b.high >= b.close
    /\ b.low <= b.open /\ b.low <= b.close

UniqueTs(frame) == \A a, b \in 1..Len(frame) : a # b => frame[a].ts # frame[b].ts

IsSortOf(s, frame) ==
    /\ Len(s) = Len(frame)
    /\ \A k \in 1..(Len(s) - 1) : s[k].ts <= s[k + 1].ts
    /\ \A r \in {frame[k] : k \in 1..Len(frame)} :
          Cardinality({k \in 1..Len(s) : s[k] = r})
              = Cardinality({k \in 1..Len(frame) : frame[k] = r})

\* the builder with the other arguments of this call
BarsWith(thr, keep) == BuildBars(sdf, meas, thr, Den, keep, Tick)

(***************************************************************************)
(* C1 as stated: the runs of the output bars reconstruct 0..n-1 whatever   *)
(* the arguments, and the n_src_bars sum to n.                             *)
(***************************************************************************)
C1_AllRowsCovered ==
    Done => /\ RunsContiguous
            /\ RunsMatchOutput
            /\ Covered = Len(df)
            /\ SeqSum(Column(out, "n_src_bars")) = Len(df)

(***************************************************************************)
(* C1 amended: the runs are contiguous from row 0 and disjoint; with       *)
(* keep_tail they reconstruct 0..n-1 and the n_src_bars sum to n; without  *)
(* keep_tail they reconstruct the rows up to the last close, and the rows  *)
(* left out are the final run that stayed under the threshold.             *)
(***************************************************************************)
C1_Coverage ==
    Done => /\ RunsContiguous
            /\ RunsMatchOutput
            /\ SeqSum(Column(out, "n_src_bars")) = Covered
            /\ keep_tail => Covered = Len(df)
            /\ ~keep_tail =>
                  /\ Covered = RestFrom(meas, threshold * Den)
                  /\ Covered <= Len(df)
                  /\ Covered < Len(df) =>
                        RangeSum(meas, Covered, Len(df) - 1) < threshold * Den

C1_FullCoverage ==
    /\ Done
    /\ keep_tail
    /\ Len(runs) >= 2
    /\ runs[1][2] - runs[1][1] >= 2
    /\ Covered = Len(df)

C1_DroppedTail ==
    /\ Done
    /\ ~keep_tail
    /\ Len(runs) >= 2
    /\ runs[1][2] - runs[1][1] >= 2
    /\ Covered < Len(df)

(***************************************************************************)
(* C2: threshold monotonicity.  With the frame and keep_tail of the call,  *)
(* a threshold above the call's gives at most as many bars as the call     *)
(* returned, and a threshold below it at least as many.                    *)
(***************************************************************************)
C2_ThresholdMonotone ==
    Done => \A t \in Thresholds :
                LET count == Len(BarsWith(t, keep_tail))
                IN  /\ threshold <= t => count <= Len(out)
                    /\ t <= threshold => Len(out) <= count

C2_Witness ==
    /\ Done
    /\ mode = "volume"
    /\ \E t \in Thresholds :
          /\ threshold < t
          /\ Len(BarsWith(t, keep_tail)) < Len(out)
          /\ Len(BarsWith(t, keep_tail)) >= 2

(***************************************************************************)
(* C3: valid input bars (high >= max(open, close), low <= min(open,        *)
(* close)) give valid output bars, the kept tail included.                 *)
(***************************************************************************)
C3_OhlcPreserved ==
    (Done /\ \A k \in 1..Len(sdf) : ValidBar(sdf[k]))
        => \A k \in 1..Len(out) : ValidBar(out[k])

C3_Witness ==
    /\ Done
    /\ keep_tail
    /\ \A k \in 1..Len(sdf) : ValidBar(sdf[k])
    /\ Len(out) >= 2
    /\ out[1].n_src_bars >= 2
    /\ out[1].high > out[1].open
    /\ Covered = Len(df) /\ start < Len(df)

\* an invalid input bar is not repaired
C3_InvalidInputSeen ==
    /\ Done
    /\ \E k \in 1..Len(out) : ~ValidBar(out[k])

(***************************************************************************)
(* C4: in volume mode the accumulator holds exactly the volume of the rows *)
(* since the last close (nothing of the overshoot), a bar closes at row j  *)
(* exactly when that sum reaches the threshold, and the example (10 rows   *)
(* of volume 50, threshold 120, keep_tail) gives the counts 3, 3, 3, 1.    *)
(***************************************************************************)
C4_ResetToZero ==
    /\ (mode = "volume" /\ pc = "loop") =>
          /\ cum = RangeSum(meas, start, i - 1)
          /\ {runs[k][2] - 1 : k \in 1..Len(runs)} = CloseSet(meas, threshold, i - 1)
          /\ start = IF runs = <<>> THEN 0 ELSE runs[Len(runs)][2]
    /\ (Done /\ df = ExampleFrame /\ keep_tail) =>
          Column(out, "n_src_bars") = <<3, 3, 3, 1>>

C4_Witness ==
    /\ Done
    /\ mode = "volume"
    /\ df = ExampleFrame
    /\ keep_tail
    /\ Len(out) = 4

\* an overshoot was discarded: the closed bar's volume exceeded the threshold
C4_OvershootSeen ==
    /\ pc = "loop"
    /\ mode = "volume"
    /\ threshold > 0
    /\ bars # <<>>
    /\ bars[1].volume > threshold
    /\ i > start
    /\ cum > 0

(***************************************************************************)
(* C5: the timestamp of every output bar is the timestamp of the last row  *)
(* of its run in the sorted frame, not the first row's; with unique input  *)
(* timestamps the output timestamps increase strictly.                     *)
(***************************************************************************)
C5_TimestampOfLastRow ==
    Done =>
        /\ IsSortOf(sdf, df)
        /\ RunsMatchOutput
        /\ \A k \in 1..Len(out) :
              /\ out[k].ts = sdf[runs[k][2]].ts
              /\ (UniqueTs(df) /\ out[k].n_src_bars > 1) => out[k].ts # sdf[runs[k][1] + 1].ts
        /\ UniqueTs(df) => \A k \in 1..(Len(out) - 1) : out[k].ts < out[k + 1].ts

C5_Witness ==
    /\ Done
    /\ UniqueTs(df)
    /\ Len(df) >= 3
    /\ df[1].ts > df[2].ts
    /\ Len(out) >= 2
    /\ out[1].n_src_bars >= 2
    /\ keep_tail /\ start < Len(df)

(***************************************************************************)
(* C6: every output bar has the open of the first row of its run, the      *)
(* maximum of the highs, the minimum of the lows, the close of the last    *)
(* row, the sum of the volumes and the number of rows, in every mode.      *)
(***************************************************************************)
C6_Aggregation ==
    Done =>
        /\ Len(out) = Len(runs)
        /\ \A k \in 1..Len(out) :
              LET lo == runs[k][1] + 1
                  hi == runs[k][2]
              IN  /\ out[k].open = sdf[lo].open
                  /\ \E r \in lo..hi : out[k].high = sdf[r].high
                  /\ \A r \in lo..hi : out[k].high >= sdf[r].high
                  /\ \E r \in lo..hi : out[k].low = sdf[r].low
                  /\ \A r \in lo..hi : out[k].low <= sdf[r].low
                  /\ out[k].close = sdf[hi].close
                  /\ out[k].volume = RangeSum(Column(sdf, "volume"), lo - 1, hi - 1)
                  /\ out[k].n_src_bars = hi - lo + 1

C6_Witness ==
    /\ Done
    /\ mode = "tick"
    /\ \E k \in 1..Len(out) :
          /\ out[k].n_src_bars = 3
          /\ out[k].high > sdf[runs[k][1] + 1].high
          /\ out[k].high > sdf[runs[k][2]].high
          /\ out[k].low < sdf[runs[k][1] + 1].low
          /\ out[k].volume > sdf[runs[k][2]].volume

(***************************************************************************)
(* C7: the tail policy.  When the rows after the last close stayed under   *)
(* the threshold, keep_tail gives exactly one more bar, over exactly those *)
(* rows, and without keep_tail nothing is emitted for them; when the last  *)
(* row closes a bar there is no tail bar; apart from that bar the two      *)
(* policies return the same frame.                                         *)
(***************************************************************************)
C7_TailPolicy ==
    Done =>
        LET kept    == IF keep_tail THEN out ELSE BarsWith(threshold, TRUE)
            dropped == IF keep_tail THEN BarsWith(threshold, FALSE) ELSE out
            rest    == RestFrom(meas, threshold * Den)
        IN  IF rest < N
            THEN /\ RangeSum(meas, rest, N - 1) < threshold * Den
                 /\ Len(kept) = Len(dropped) + 1
                 /\ SubSeq(kept, 1, Len(dropped)) = dropped
                 /\ kept[Len(kept)].n_src_bars = N - rest
                 /\ kept[Len(kept)].open = sdf[rest + 1].open
                 /\ kept[Len(kept)].ts = sdf[N].ts
                 /\ Len(dropped) = Cardinality(CloseSet(meas, threshold * Den, N - 1))
            ELSE /\ kept = dropped
                 /\ Len(kept) = Cardinality(CloseSet(meas, threshold * Den, N - 1))

C7_Witness ==
    /\ Done
    /\ ~keep_tail
    /\ Len(out) >= 1
    /\ RestFrom(meas, threshold * Den) < N - 1

C7_NoTail ==
    /\ Done
    /\ keep_tail
    /\ Len(out) >= 2
    /\ RestFrom(meas, threshold * Den) = N

(***************************************************************************)
(* C8 as stated: under every tail policy the output is empty exactly when  *)
(* the input is.                                                           *)
(***************************************************************************)
C8_EmptyIffEmpty == Done => (out = <<>> <=> df = <<>>)

(***************************************************************************)
(* C8 amended: an empty input gives an empty output; with keep_tail the    *)
(* output is empty only when the input is; without keep_tail the output is *)
(* empty exactly when no run reaches the threshold.                        *)
(***************************************************************************)
C8_EmptyOutput ==
    Done => /\ df = <<>> => out = <<>>
            /\ keep_tail => (out = <<>> <=> df = <<>>)
            /\ ~keep_tail => (out = <<>> <=> CloseSet(meas, threshold * Den, N - 1) = {})

C8_Witness ==
    /\ Done
    /\ keep_tail
    /\ Len(df) = 1
    /\ meas[1] < threshold * Den
    /\ Len(out) = 1

C8_EmptyFromRows ==
    /\ Done
    /\ ~keep_tail
    /\ df # <<>>
    /\ out = <<>>

(***************************************************************************)
(* C9: a threshold <= 0 fails with InvalidArgument and gives no bars.      *)
(***************************************************************************)
C9_NonPositiveThresholdFails ==
    (/\ threshold <= 0
     /\ pc \in {"done", "error"}
     /\ OHLCV \subseteq columns
     /\ mode = "tick" => trades_col \in columns
     /\ mode = "dollar" => price_basis \in Bases /\ ~VwapMissing(columns, price_basis))
        => /\ pc = "error"
           /\ err = "InvalidArgument"
           /\ bars = <<>>
           /\ out = <<>>

(***************************************************************************)
(* C10: when the column the mode needs is absent (trades in tick mode,     *)
(* vwap in dollar mode with price_basis = vwap) the call raises the        *)
(* missing-column error before any bar, and no other column is taken as    *)
(* the measure.                                                            *)
(***************************************************************************)
NeededColumnAbsent ==
    \/ mode = "tick" /\ trades_col \notin columns
    \/ mode = "dollar" /\ price_basis = "vwap" /\ "vwap" \notin columns

C10_MissingColumnFails ==
    NeededColumnAbsent =>
        /\ pc \in {"call", "error"}
        /\ pc = "error" => err = "MissingColumn"
        /\ meas = <<>>
        /\ bars = <<>>
        /\ out = <<>>

C10_Witness ==
    /\ pc = "error"
    /\ err = "MissingColumn"
    /\ mode = "tick"
    /\ "trades" \notin columns
    /\ "volume" \in columns
    /\ df # <<>>

C10_VwapWitness ==
    /\ pc = "error"
    /\ err = "MissingColumn"
    /\ mode = "dollar"
    /\ price_basis = "vwap"
    /\ OHLCV \subseteq columns
    /\ df # <<>>

(***************************************************************************)
(* The backtest code of src/services/api: app.py (equity_buy_hold,         *)
(* equity_sma_cross, metrics_from_equity), backtester/engine.py            *)
(* (run_backtest, _tf_minutes, _perf_metrics), strategies/sma_cross.py.    *)
(*                                                                         *)
(* Numbers.  A float is an exact fraction <<n, d>> in lowest terms with    *)
(* d > 0, and NaN is <<0, 0>>; rounding of IEEE doubles is not modelled.   *)
(* A series of the model holds element j of the pandas series at s[j + 1]. *)
(***************************************************************************)
MaxBars == 4         \* bars of a frame given to app.py
MaxEngineBars == 3   \* bars of a frame given to the engine
MaxWindow == 3       \* largest moving-average window
MaxLookback == 1     \* largest train portion of the engine

NaN == <<0, 0>>
Zero == <<0, 1>>
One == <<1, 1>>

RECURSIVE GCD(_, _)
GCD(a, b) == IF b = 0 THEN a ELSE GCD(b, a % b)

Abs(x) == IF x < 0 THEN 0 - x ELSE x

\* the fraction n / d, d # 0, in lowest terms
Frac(n, d) ==
    LET g == GCD(Abs(n), Abs(d))
        sg == IF d < 0 THEN 0 - 1 ELSE 1
    IN  <<(sg * n) \div g, (sg * d) \div g>>

FInt(n) == <<n, 1>>
FAdd(x, y) == Frac(x[1] * y[2] + y[1] * x[2], x[2] * y[2])
FSub(x, y) == Frac(x[1] * y[2] - y[1] * x[2], x[2] * y[2])
FMul(x, y) == Frac(x[1] * y[1], x[2] * y[2])
FDiv(x, y) == Frac(x[1] * y[2], x[2] * y[1])
FLt(x, y) == x[1] * y[2] < y[1] * x[2]
FLe(x, y) == x[1] * y[2] <= y[1] * x[2]

\* a comparison with NaN is False
Gt(x, y) == x # NaN /\ y # NaN /\ FLt(y, x)

\* .astype(float) of an integer series
AsFloat(s) == [j \in 1..Len(s) |-> FInt(s[j])]

\* s.shift(1).fillna(v)
ShiftNone(s, v) == s
ShiftBack(s, v) == [j \in 1..Len(s) |-> IF j = Len(s) THEN v ELSE s[j + 1]]
Shift1Fill(s, v) == [j \in 1..Len(s) |-> IF j = 1 THEN v ELSE s[j - 1]]

\* s.pct_change(), s a series of fractions
Diff(s) == [j \in 1..Len(s) |-> IF j = 1 THEN NaN ELSE FSub(s[j], s[j - 1])]
PctChange(s) ==
    [j \in 1..Len(s) |-> IF j = 1 THEN NaN ELSE FSub(FDiv(s[j], s[j - 1]), One)]

FillNa(s, v) == [j \in 1..Len(s) |-> IF s[j] = NaN THEN v ELSE s[j]]
DropNa(s) == SelectSeq(s, LAMBDA x : x # NaN)

\* s.rolling(w, min_periods=minp).mean(), s a series of integers
Rolling(s, w, minp) ==
    [j \in 1..Len(s) |->
        LET lo == IF j - w + 1 < 1 THEN 1 ELSE j - w + 1
        IN  IF j - lo + 1 < minp THEN NaN
            ELSE Frac(SeqSum(SubSeq(s, lo, j)), j - lo + 1)]

\* s.cumprod() and s.cummax(), s a series of fractions
RECURSIVE CumProdAt(_, _)
CumProdAt(s, j) == IF j = 1 THEN s[1] ELSE FMul(CumProdAt(s, j - 1), s[j])
CumProd(s) == [j \in 1..Len(s) |-> CumProdAt(s, j)]

FMax(S) == CHOOSE x \in S : \A y \in S : FLe(y, x)
FMin(S) == CHOOSE x \in S : \A y \in S : FLe(x, y)
GlobalMax(s) == [j \in 1..Len(s) |-> FMax({s[m] : m \in 1..Len(s)})]
CumMax(s) == [j \in 1..Len(s) |-> FMax({s[m] : m \in 1..j})]

(***************************************************************************)
(* strategies/sma_cross.py and the strategies the engine imports.          *)
(***************************************************************************)
\* Strategy.generate_positions: trend and edge, 1.0 where both hold
generate_positions(px, fc, fast, slow) ==
    LET ma_fast == Rolling(px, fast, fast)
        ma_slow == Rolling(px, slow, slow)
    IN  [j \in 1..Len(px) |->
            IF Gt(ma_fast[j], ma_slow[j]) /\ fc[j] > px[j] THEN One ELSE Zero]

\* strategies/buy_hold.py: exposure 1.0 on every bar
BuyHoldPositions(px) == [j \in 1..Len(px) |-> One]

\* strategies/rsi_meanrev.py: some series of exposures in [0, 1]
PosValues == {Zero, <<1, 2>>, One}
AnyPositions(px) == [1..Len(px) -> PosValues]

\* STRATS[req.strategy](**req.strategy_params).generate_positions(...)
StratPositions(strat, px, fc, fast, slow) ==
    CASE strat = "sma_cross" -> {generate_positions(px, fc, fast, slow)}
      [] strat = "buy_hold" -> {BuyHoldPositions(px)}
      [] strat = "rsi_meanrev" -> AnyPositions(px)

(***************************************************************************)
(* engine.run_backtest, lines 32-34.                                       *)
(***************************************************************************)
\* ret = test.pct_change().fillna(0.0)
Ret(px) == FillNa(PctChange(AsFloat(px)), Zero)

\* strat_ret = pos.shift(1).fillna(0.0) * ret
StratRetSameBar(ps, ret) == [j \in 1..Len(ret) |-> FMul(ps[j], ret[j])]
StratRet(ps, ret) ==
    LET sh == Shift1Fill(ps, Zero)
    IN  [j \in 1..Len(ret) |-> FMul(sh[j], ret[j])]

\* equity = (1 + strat_ret).cumprod() * req.initial_cash
Compound(sr, c) ==
    LET g == CumProd([j \in 1..Len(sr) |-> FAdd(One, sr[j])])
    IN  [j \in 1..Len(sr) |-> FMul(g[j], FInt(c))]

(***************************************************************************)
(* app.py: equity_buy_hold and equity_sma_cross.                           *)
(***************************************************************************)
BuyHoldLastUnits(px, c) ==
    [j \in 1..Len(px) |-> FMul(Frac(c, px[Len(px)]), FInt(px[j]))]
BuyHoldPrevBar(px, c) ==
    [j \in 1..Len(px) |-> FMul(Frac(c, px[1]), FInt(px[IF j = 1 THEN 1 ELSE j - 1]))]
equity_buy_hold(px, c) ==
    LET u == Frac(c, px[1])
    IN  [j \in 1..Len(px) |-> FMul(u, FInt(px[j]))]

\* long = (fast > slow).astype(int); long = long.shift(1).fillna(0)
RawCross(px, fast, slow) ==
    LET f == Rolling(px, fast, 1)
        sl == Rolling(px, slow, 1)
    IN  [j \in 1..Len(px) |-> IF Gt(f[j], sl[j]) THEN 1 ELSE 0]
Long(px, fast, slow) == Shift1Fill(RawCross(px, fast, slow), 0)

\* equity = [cash_start]; units = 0.0; cash = cash_start
BookInit(c) == [units |-> Zero, cash |-> FInt(c), equity |-> <<FInt(c)>>]

\* one iteration of the bookkeeping loop at price p with signal ps
BookStepNoExit(st, p, ps) ==
    LET enter == ps # 0 /\ st.units = Zero
        u == IF enter THEN FDiv(st.cash, FInt(p)) ELSE st.units
        c == IF enter THEN Zero ELSE st.cash
    IN  [units |-> u, cash |-> c,
         equity |-> Append(st.equity, FAdd(c, FMul(u, FInt(p))))]
BookStepKeepCash(st, p, ps) ==
    LET u == IF ps # 0 /\ st.units = Zero THEN FDiv(st.cash, FInt(p)) ELSE st.units
    IN  [units |-> u, cash |-> st.cash,
         equity |-> Append(st.equity, FAdd(st.cash, FMul(u, FInt(p))))]
BookStep(st, p, ps) ==
    LET enter == ps # 0 /\ st.units = Zero
        exit == ~enter /\ ps = 0 /\ FLt(Zero, st.units)
        u == IF enter THEN FDiv(st.cash, FInt(p))
             ELSE IF exit THEN Zero ELSE st.units
        c == IF enter THEN Zero
             ELSE IF exit THEN FMul(st.units, FInt(p)) ELSE st.cash
    IN  [units |-> u, cash |-> c,
         equity |-> Append(st.equity, FAdd(c, FMul(u, FInt(p))))]

(***************************************************************************)
(* The metrics.  sharpe and sortino need a square root and a standard      *)
(* deviation: they are kept as the number of periods per year under the    *)
(* root that scales them; cagr is kept as the two arguments of its power,  *)
(* base ** (1 / years) - 1.                                                *)
(***************************************************************************)
Returned(v) == [raised |-> "", value |-> v]
Raised(e) == [raised |-> e]

\* a timeframe string is its last character and the integer before it;
\* NoDigits stands for a head that is not a string of digits
Tf(head, unit) == [head |-> head, unit |-> unit]
NoDigits == 0 - 1

\* engine._tf_minutes
_tf_minutes(tf) ==
    CASE tf.unit = "m" -> Returned(tf.head)
      [] tf.unit = "h" -> Returned(tf.head * 60)
      [] tf.unit = "d" -> Returned(tf.head * 1440)
      [] OTHER -> Raised("ValueError")

\* app.periods_per_year; int() truncates the quotient
periods_per_year(tf) ==
    LET mult == IF tf.head # NoDigits THEN tf.head ELSE 1
    IN  IF tf.unit \in {"m", "h", "d", "w"} /\ mult = 0 THEN Raised("ZeroDivisionError")
        ELSE CASE tf.unit = "m" -> Returned((365 * 24 * 60) \div mult)
               [] tf.unit = "h" -> Returned((365 * 24) \div mult)
               [] tf.unit = "d" -> Returned(365 \div mult)
               [] tf.unit = "w" -> Returned(52 \div mult)
               [] OTHER -> Returned(365)

\* np.sqrt(ppyr) * (mean / (std + 1e-9)), and the literal 0.0
Annualised(ppyr) == [ann |-> ppyr]
ZeroSharpe == Annualised(0)

\* (s > 0).sum() and (s != 0).sum()
CountPositive(s) == Cardinality({j \in 1..Len(s) : FLt(Zero, s[j])})
CountNonZero(s) == Cardinality({j \in 1..Len(s) : s[j] # Zero})
Last(s) == s[Len(s)]

\* roll_max = equity.cummax(); dd = (equity / roll_max - 1).min()
Drawdown(eq) ==
    LET roll_max == CumMax(eq)
    IN  FMin({FSub(FDiv(eq[j], roll_max[j]), One) : j \in 1..Len(eq)})

\* (equity.index[-1] - equity.index[0]).days
SpanDays(eq, step) == IF eq = <<>> THEN 0 ELSE (Len(eq) - 1) * step

\* base ** (1 / years) - 1, and np.nan in its place
Power(b, y) == [base |-> b, years |-> y]
NaNPower == Power(NaN, NaN)

\* engine._perf_metrics, lines 51-60, on a non-empty equity
PerfRecord(rets, eq, c, step) ==
    LET wins == CountPositive(rets)
        trades == CountNonZero(rets)
        days == SpanDays(eq, step)
        years == Frac(IF days > 1 THEN days ELSE 1, 365)
    IN  [sharpe     |-> Annualised(365 * 24),
         sortino    |-> Annualised(365 * 24),
         max_dd     |-> Drawdown(eq),
         win_rate   |-> Frac(wins, IF trades > 1 THEN trades ELSE 1),
         trades     |-> trades,
         abs_return |-> FSub(Last(eq), FInt(c)),
         rel_return |-> FSub(FDiv(Last(eq), FInt(c)), One),
         cagr       |-> IF FLt(Zero, years)
                        THEN Power(FDiv(Last(eq), FInt(c)), years)
                        ELSE NaNPower]

\* engine._perf_metrics; line 47 evaluates _tf_minutes("60") first
_perf_metrics(rets, eq, c, step) ==
    IF _tf_minutes(Tf(6, "0")).raised # "" THEN Raised(_tf_minutes(Tf(6, "0")).raised)
    ELSE IF eq = <<>> THEN Raised("IndexError")
    ELSE Returned(PerfRecord(rets, eq, c, step))

\* app.metrics_from_equity
metrics_from_equity(eq, ppyr) ==
    LET rets == DropNa(PctChange(eq))
    IN  IF Len(rets) = 0
        THEN [sharpe       |-> ZeroSharpe,
              win_rate     |-> Zero,
              max_drawdown |-> Zero,
              abs_return   |-> FSub(Last(eq), eq[1]),
              rel_return   |-> FSub(FDiv(Last(eq), eq[1]), One)]
        ELSE [sharpe       |-> Annualised(ppyr),
              win_rate     |-> Frac(CountPositive(rets), Len(rets)),
              max_drawdown |-> Drawdown(eq),
              abs_return   |-> FSub(Last(eq), eq[1]),
              rel_return   |-> FSub(FDiv(Last(eq), eq[1]), One)]

(***************************************************************************)
(* The backtests that are checked.                                         *)
(***************************************************************************)
Closes == {1, 2, 3}
PriceSeqs(n) == UNION {[1..m -> Closes] : m \in 1..n} \cup {<<100, 110, 99>>}
Windows == 1..MaxWindow
CashValues == {1, 1000}
ForecastLevels == {0, 2, 4}

\* model.fit(train); model.predict(len(test)): a flat forecast at some level
Predict(level, n) == [j \in 1..n |-> level]

\* the forecaster whose fit or predict fails internally
FitFails == 0 - 1

\* the naive forecast over the test portion: the close of the bar before,
\* the first close for the first bar of the series
NaiveForecast(cl, lb) ==
    [j \in 1..(Len(cl) - lb) |-> IF lb + j = 1 THEN cl[1] ELSE cl[lb + j - 1]]

\* MODELS[req.model](...).fit(train).predict(len(test)): a model that fails
\* internally answers with the naive forecast
FitPredict(level, cl, lb) ==
    IF level = FitFails THEN NaiveForecast(cl, lb) ELSE Predict(level, Len(cl) - lb)

\* no bar builder is running
BarsIdle ==
    /\ df = <<>>
    /\ columns = {}
    /\ mode = ""
    /\ threshold = 0
    /\ keep_tail = FALSE
    /\ price_basis = ""
    /\ pc = "idle"
    /\ sdf = <<>>
    /\ meas = <<>>
    /\ i = 0
    /\ start = 0
    /\ cum = 0
    /\ bars = <<>>
    /\ runs = <<>>
    /\ out = <<>>
    /\ err = ""

\* the request of a backtest, and the variables as the call finds them
Backtest(sim, cl, step, lb, strat, level, tf, c, fast, slow) ==
    /\ BarsIdle
    /\ ExtIdle
    /\ simulator = sim
    /\ close = cl
    /\ day_step = step
    /\ lookback = lb
    /\ strategy = strat
    /\ forecaster = level
    /\ timeframe = tf
    /\ cash_start = c
    /\ sma_fast = fast
    /\ sma_slow = slow
    /\ spc = "call"
    /\ price = <<>>
    /\ forecast = <<>>
    /\ pos = <<>>
    /\ long = <<>>
    /\ at = 0
    /\ units = Zero
    /\ cash = Zero
    /\ equity = <<>>
    /\ returns = <<>>
    /\ metrics = <<>>
    /\ serr = ""

\* POST /backtest of app.py; sma_fast = 10 and sma_slow = 30 are the defaults
AppCalls ==
    \E cl \in PriceSeqs(MaxBars), c \in CashValues :
        \/ Backtest("buy_hold", cl, 1, 0, "buy_hold", 0, Tf(5, "m"), c, 10, 30)
        \/ \E fast \in Windows, slow \in Windows :
                Backtest("sma_cross", cl, 1, 0, "sma_cross", 0, Tf(5, "m"), c, fast, slow)

\* run_backtest of the engine; the index is intraday or daily
EngineCalls ==
    \E cl \in PriceSeqs(MaxEngineBars), lb \in 0..MaxLookback :
        \/ \E c \in CashValues, step \in {0, 1} :
                Backtest("engine", cl, step, lb, "buy_hold", 0, Tf(1, "h"), c, 10, 50)
        \/ \E step \in {0, 1} :
                Backtest("engine", cl, step, lb, "rsi_meanrev", 0, Tf(1, "h"), 1000, 10, 50)
        \/ \E fast \in Windows, slow \in Windows, level \in ForecastLevels \cup {FitFails} :
                Backtest("engine", cl, 1, lb, "sma_cross", level, Tf(1, "h"), 1000, fast, slow)

InitSim == AppCalls \/ EngineCalls

request == <<simulator, close, day_step, lookback, strategy, forecaster, timeframe,
             cash_start, sma_fast, sma_slow>>
barvars == <<df, columns, mode, threshold, keep_tail, price_basis,
             pc, sdf, meas, i, start, cum, bars, runs, out, err>>

(***************************************************************************)
(* The actions of a backtest.                                              *)
(***************************************************************************)
\* engine.run_backtest, lines 19-26: the split and the forecast
EngineSplit ==
    /\ simulator = "engine"
    /\ spc = "call"
    /\ price' = SubSeq(close, lookback + 1, Len(close))
    /\ forecast' = FitPredict(forecaster, close, lookback)
    /\ spc' = "positions"
    /\ UNCHANGED <<extvars, barvars, request, pos, long, at, units, cash, equity, returns,
                   metrics, serr>>

\* lines 29-30
EnginePositions ==
    /\ simulator = "engine"
    /\ spc = "positions"
    /\ pos' \in StratPositions(strategy, price, forecast, sma_fast, sma_slow)
    /\ spc' = "simulate"
    /\ UNCHANGED <<extvars, barvars, request, price, forecast, long, at, units, cash, equity,
                   returns, metrics, serr>>

\* lines 32-34
EngineSimulate ==
    /\ simulator = "engine"
    /\ spc = "simulate"
    /\ returns' = StratRet(pos, Ret(price))
    /\ equity' = Compound(returns', cash_start)
    /\ spc' = "metrics"
    /\ UNCHANGED <<extvars, barvars, request, price, forecast, pos, long, at, units, cash,
                   metrics, serr>>

\* lines 36-37
EngineMetrics ==
    /\ simulator = "engine"
    /\ spc = "metrics"
    /\ LET m == _perf_metrics(returns, equity, cash_start, day_step)
       IN  IF m.raised # ""
           THEN /\ spc' = "error"
                /\ serr' = m.raised
                /\ UNCHANGED metrics
           ELSE /\ spc' = "done"
                /\ metrics' = m.value
                /\ UNCHANGED serr
    /\ UNCHANGED <<extvars, barvars, request, price, forecast, pos, long, at, units, cash,
                   equity, returns>>

\* app.equity_buy_hold
AppBuyHold ==
    /\ simulator = "buy_hold"
    /\ spc = "call"
    /\ price' = close
    /\ equity' = equity_buy_hold(close, cash_start)
    /\ spc' = "metrics"
    /\ UNCHANGED <<extvars, barvars, request, forecast, pos, long, at, units, cash, returns,
                   metrics, serr>>

\* app.equity_sma_cross, lines 109-118
SmaCrossSignal ==
    /\ simulator = "sma_cross"
    /\ spc = "call"
    /\ price' = close
    /\ long' = Long(close, sma_fast, sma_slow)
    /\ units' = BookInit(cash_start).units
    /\ cash' = BookInit(cash_start).cash
    /\ equity' = BookInit(cash_start).equity
    /\ at' = 1
    /\ spc' = "loop"
    /\ UNCHANGED <<extvars, barvars, request, forecast, pos, returns, metrics, serr>>

\* one iteration of the loop of lines 121-129
SmaCrossIteration ==
    /\ simulator = "sma_cross"
    /\ spc = "loop"
    /\ at < Len(price)
    /\ LET st == BookStep([units |-> units, cash |-> cash, equity |-> equity],
                          price[at + 1], long[at + 1])
       IN  /\ units' = st.units
           /\ cash' = st.cash
           /\ equity' = st.equity
    /\ at' = at + 1
    /\ UNCHANGED <<extvars, barvars, request, spc, price, forecast, pos, long, returns,
                   metrics, serr>>

\* line 132
SmaCrossReturn ==
    /\ simulator = "sma_cross"
    /\ spc = "loop"
    /\ at >= Len(price)
    /\ spc' = "metrics"
    /\ UNCHANGED <<extvars, barvars, request, price, forecast, pos, long, at, units, cash,
                   equity, returns, metrics, serr>>

\* app.metrics_from_equity on the equity of either strategy
AppMetrics ==
    /\ simulator \in {"buy_hold", "sma_cross"}
    /\ spc = "metrics"
    /\ returns' = DropNa(PctChange(equity))
    /\ LET ppyr == periods_per_year(timeframe)
       IN  IF ppyr.raised # ""
           THEN /\ spc' = "error"
                /\ serr' = ppyr.raised
                /\ UNCHANGED metrics
           ELSE /\ spc' = "done"
                /\ metrics' = metrics_from_equity(equity, ppyr.value)
                /\ UNCHANGED serr
    /\ UNCHANGED <<extvars, barvars, request, price, forecast, pos, long, at, units, cash,
                   equity>>

NextSim ==
    \/ EngineSplit
    \/ EnginePositions
    \/ EngineSimulate
    \/ EngineMetrics
    \/ AppBuyHold
    \/ SmaCrossSignal
    \/ SmaCrossIteration
    \/ SmaCrossReturn
    \/ AppMetrics

SpecSim == InitSim /\ [][NextSim]_vars

(***************************************************************************)
(* The command-line runner: run_backtest of src/tools/local_cli.py.  Its   *)
(* strategy and metrics functions are the ones it finds in services.api.app *)
(* (lines 23 and 41-49).  The index of a series is the list of the         *)
(* positions of its timestamps in the index of the frame.                  *)
(***************************************************************************)
Index(cl) == [j \in 1..Len(cl) |-> j]

\* app.equity_sma_cross as a function: the loop run to its end
RECURSIVE BookLoop(_, _, _, _)
BookLoop(st, px, lg, j) ==
    IF j >= Len(px) THEN st ELSE BookLoop(BookStep(st, px[j + 1], lg[j + 1]), px, lg, j + 1)
equity_sma_cross(px, c, fast, slow) ==
    BookLoop(BookInit(c), px, Long(px, fast, slow), 1).equity

\* eq.reindex(index): the value at each timestamp of index, NaN where eq has none
Reindex(eq, idx, index) ==
    [j \in 1..Len(index) |->
        IF \E m \in 1..Len(idx) : idx[m] = index[j]
        THEN eq[CHOOSE m \in 1..Len(idx) : idx[m] = index[j]]
        ELSE NaN]

\* .ffill() and .bfill()
FFill(s) ==
    [j \in 1..Len(s) |->
        IF \E m \in 1..j : s[m] # NaN
        THEN s[SetMax({m \in 1..j : s[m] # NaN})]
        ELSE NaN]
BFill(s) ==
    [j \in 1..Len(s) |->
        IF \E m \in j..Len(s) : s[m] # NaN
        THEN s[CHOOSE m \in j..Len(s) : s[m] # NaN /\ \A o \in j..(m - 1) : s[o] = NaN]
        ELSE NaN]

\* lines 189-190
Align(eq, idx, index) ==
    IF idx = index THEN eq ELSE BFill(FFill(Reindex(eq, idx, index)))

\* the indexes a strategy function may return its series on: the index of the
\* frame (app.equity_sma_cross, line 132) or that index without one bar (the
\* case lines 189-190 provide for)
ReturnedIndexes(n) ==
    {[j \in 1..n |-> j]} \cup
    {[j \in 1..(n - 1) |-> IF j < o THEN j ELSE j + 1] : o \in IF n > 1 THEN 1..n ELSE {}}

\* python -m tools.local_cli backtest --strategy ... --cash ... on a CSV frame
CliCalls ==
    \E cl \in PriceSeqs(MaxEngineBars), c \in CashValues,
       tf \in {Tf(5, "m"), Tf(1, "h")} :
        \/ Backtest("cli", cl, 1, 0, "buy_hold", 0, tf, c, 10, 30)
        \/ \E fast \in Windows, slow \in Windows :
                Backtest("cli", cl, 1, 0, "sma_cross", 0, tf, c, fast, slow)

InitCli == CliCalls

\* lines 159-166: equity_buy_hold has two parameters, so it is called with the
\* close series, and app.equity_buy_hold subscripts it with "close"
CliBuyHold ==
    /\ simulator = "cli"
    /\ spc = "call"
    /\ strategy = "buy_hold"
    /\ spc' = "error"
    /\ serr' = "KeyError"
    /\ UNCHANGED <<extvars, barvars, request, price, forecast, pos, long, at, units,
                   cash, equity, returns, metrics>>

\* lines 167-182: equity_sma_cross(df, cash_start, sma_fast, sma_slow)
CliSmaCross ==
    /\ simulator = "cli"
    /\ spc = "call"
    /\ strategy = "sma_cross"
    /\ price' = close
    /\ \E idx \in ReturnedIndexes(Len(close)) :
            /\ eqidx' = idx
            /\ equity' = [j \in 1..Len(idx) |->
                            equity_sma_cross(close, cash_start, sma_fast, sma_slow)[idx[j]]]
    /\ spc' = "align"
    /\ UNCHANGED <<apivars, ingvars, barvars, request, forecast, pos, long, at, units,
                   cash, returns, metrics, serr>>

\* lines 187-190
CliAlign ==
    /\ simulator = "cli"
    /\ spc = "align"
    /\ equity' = Align(equity, eqidx, Index(close))
    /\ spc' = "metrics"
    /\ UNCHANGED <<extvars, barvars, request, price, forecast, pos, long, at, units,
                   cash, returns, metrics, serr>>

\* line 192: compute_metrics(eq, cash_start), which is
\* metrics_from_equity(eq, cash_start) (line 140)
CliMetrics ==
    /\ simulator = "cli"
    /\ spc = "metrics"
    /\ returns' = DropNa(PctChange(equity))
    /\ metrics' = metrics_from_equity(equity, cash_start)
    /\ spc' = "done"
    /\ UNCHANGED <<extvars, barvars, request, price, forecast, pos, long, at, units,
                   cash, equity, serr>>

NextCli ==
    \/ CliBuyHold
    \/ CliSmaCross
    \/ CliAlign
    \/ CliMetrics

SpecCli == InitCli /\ [][NextCli]_vars

(***************************************************************************)
(* The endpoint POST /backtest of app.py, lines 219-273, with fetch_cached *)
(* and persist_result.  A behaviour is a sequence of requests with the     *)
(* same descriptor against the same tables; close is what TABLE_OHLCV      *)
(* holds for the symbol, the timeframe and the window of the request.      *)
(***************************************************************************)
MaxRequests == 2     \* requests answered in one behaviour

\* cache_key(req): the digest of the descriptor, taken as the descriptor
\* itself (symbol, start and end are fixed in a behaviour)
cache_key == <<timeframe, forecaster, strategy, cash_start, sma_fast, sma_slow>>

\* np.sqrt(x), kept as its argument
Sqrt(x) == [radicand |-> x]

\* app.model_predict
model_predict(y, model, fast) ==
    CASE model = "naive" -> Returned(Shift1Fill(AsFloat(y), FInt(y[1])))
      [] model = "sma"   -> Returned(Rolling(y, fast, 1))
      [] OTHER           -> Raised("ValueError")

\* np.mean(err ** 2) of err = close - preds
RECURSIVE FSum(_)
FSum(s) == IF s = <<>> THEN Zero ELSE FAdd(s[1], FSum(Tail(s)))
MeanSquare(y, p) ==
    FDiv(FSum([j \in 1..Len(y) |-> FMul(FSub(FInt(y[j]), p[j]), FSub(FInt(y[j]), p[j]))]),
         FInt(Len(y)))

\* fetch_cached: the rows of the table with the id of the request, the
\* latest first (rows are appended in the order of requested_at)
CachedRows == SelectSeq(bt_table, LAMBDA row : row.id = cache_key)
fetch_cached ==
    IF CachedRows = <<>> THEN <<>> ELSE <<CachedRows[Len(CachedRows)].metrics_json>>

\* the outcomes of client.insert_rows_json(TABLE_BT, [row]): the row is
\* stored, the row is refused and its errors are returned, or the call raises
InsertOutcomes == {"stored", "row_errors", "raised"}

\* the timeframes of the requests: the default, one with a unit that is no
\* calendar unit of periods_per_year, an hourly one
Timeframes == {Tf(5, "m"), Tf(30, "s"), Tf(1, "h")}

\* a row an earlier request with another descriptor left in TABLE_BT
OtherRow == [id |-> <<Tf(1, "d"), "naive", "buy_hold", 1, 10, 30>>, metrics_json |-> <<>>]

\* a request arrives: nothing is computed yet
Request(cl, strat, model, tf, c, fast, slow, rows) ==
    /\ BarsIdle
    /\ CliIdle
    /\ IngestIdle
    /\ simulator = strat
    /\ close = cl
    /\ day_step = 1
    /\ lookback = 0
    /\ strategy = strat
    /\ forecaster = model
    /\ timeframe = tf
    /\ cash_start = c
    /\ sma_fast = fast
    /\ sma_slow = slow
    /\ spc = "wait"
    /\ price = <<>>
    /\ forecast = <<>>
    /\ pos = <<>>
    /\ long = <<>>
    /\ at = 0
    /\ units = Zero
    /\ cash = Zero
    /\ equity = <<>>
    /\ returns = <<>>
    /\ metrics = <<>>
    /\ serr = ""
    /\ epc = "fetch_cached"
    /\ bt_table = rows
    /\ calls = <<>>
    /\ preds = <<>>
    /\ rmse = Zero
    /\ response = <<>>
    /\ nreq = 0

InitApi ==
    \E cl \in PriceSeqs(MaxEngineBars) \cup {<<>>}, model \in {"naive", "sma"},
       tf \in Timeframes, rows \in {<<>>, <<OtherRow>>} :
        \/ Request(cl, "buy_hold", model, tf, 1000, 10, 30, rows)
        \/ \E fast \in Windows, slow \in Windows :
                Request(cl, "sma_cross", model, tf, 1000, fast, slow, rows)

simrun == <<price, forecast, pos, long, at, units, cash, equity, returns, metrics>>

\* lines 224-231: the cache is tried; a hit answers with the cached metrics
ApiFetchCached ==
    /\ epc = "fetch_cached"
    /\ calls' = Append(calls, "fetch_cached")
    /\ IF fetch_cached # <<>>
       THEN /\ response' = [metrics |-> fetch_cached[1] @@ [_cached |-> TRUE],
                            equity_curve |-> <<>>]
            /\ nreq' = nreq + 1
            /\ epc' = "done"
       ELSE /\ epc' = "load"
            /\ UNCHANGED <<response, nreq>>
    /\ UNCHANGED <<clivars, ingvars, barvars, request, simrun, spc, serr, bt_table, preds, rmse>>

\* line 233: load_ohlcv, 404 on an empty frame
ApiLoadOhlcv ==
    /\ epc = "load"
    /\ calls' = Append(calls, "load_ohlcv")
    /\ IF close = <<>>
       THEN /\ epc' = "error"
            /\ serr' = "HTTP404"
       ELSE /\ epc' = "predict"
            /\ UNCHANGED serr
    /\ UNCHANGED <<clivars, ingvars, barvars, request, simrun, spc, bt_table, preds, rmse,
                   response, nreq>>

\* lines 244-246: the forecast and its error; the strategy runs next
ApiModelPredict ==
    /\ epc = "predict"
    /\ calls' = Append(calls, "model_predict")
    /\ LET p == model_predict(close, forecaster, sma_fast)
       IN  IF p.raised # ""
           THEN /\ epc' = "error"
                /\ serr' = p.raised
                /\ UNCHANGED <<preds, rmse, spc>>
           ELSE /\ preds' = p.value
                /\ rmse' = MeanSquare(close, p.value)
                /\ epc' = "simulate"
                /\ spc' = "call"
                /\ UNCHANGED serr
    /\ UNCHANGED <<clivars, ingvars, barvars, request, simrun, bt_table, response, nreq>>

\* the metrics dict of lines 255-262
MetricsDict == metrics @@ [rmse |-> Sqrt(rmse)]

\* line 267: persist_result(req, metrics, duration_ms); the value
\* insert_rows_json returns is dropped (line 198)
ApiPersist ==
    /\ epc = "simulate"
    /\ spc = "done"
    /\ calls' = Append(calls, "persist_result")
    /\ \E outcome \in InsertOutcomes :
        CASE outcome = "stored" ->
                /\ bt_table' = Append(bt_table, [id |-> cache_key, metrics_json |-> MetricsDict])
                /\ epc' = "respond"
                /\ UNCHANGED serr
          [] outcome = "row_errors" ->
                /\ epc' = "respond"
                /\ UNCHANGED <<bt_table, serr>>
          [] OTHER ->
                /\ epc' = "error"
                /\ serr' = "GoogleAPICallError"
                /\ UNCHANGED bt_table
    /\ UNCHANGED <<clivars, ingvars, barvars, request, simrun, spc, preds, rmse, response, nreq>>

\* lines 270-273
ApiRespond ==
    /\ epc = "respond"
    /\ response' = [metrics |-> MetricsDict, equity_curve |-> equity]
    /\ nreq' = nreq + 1
    /\ epc' = "done"
    /\ UNCHANGED <<clivars, ingvars, barvars, request, simrun, spc, serr, bt_table, calls, preds,
                   rmse>>

\* the same request is posted again
ApiNextRequest ==
    /\ epc = "done"
    /\ nreq < MaxRequests
    /\ epc' = "fetch_cached"
    /\ spc' = "wait"
    /\ price' = <<>>
    /\ long' = <<>>
    /\ at' = 0
    /\ units' = Zero
    /\ cash' = Zero
    /\ equity' = <<>>
    /\ returns' = <<>>
    /\ metrics' = <<>>
    /\ calls' = <<>>
    /\ preds' = <<>>
    /\ rmse' = Zero
    /\ response' = <<>>
    /\ UNCHANGED <<clivars, ingvars, barvars, request, forecast, pos, serr, bt_table, nreq>>

NextApi ==
    \/ ApiFetchCached
    \/ ApiLoadOhlcv
    \/ ApiModelPredict
    \/ AppBuyHold
    \/ SmaCrossSignal
    \/ SmaCrossIteration
    \/ SmaCrossReturn
    \/ AppMetrics
    \/ ApiPersist
    \/ ApiRespond
    \/ ApiNextRequest

SpecApi == InitApi /\ [][NextApi]_vars

(***************************************************************************)
(* The ingest jobs: fetch_and_load_symbol_tf of ccxt_ingest.py (lines      *)
(* 165-232, with choose_start_ms) and of binance_ingest.py (lines 95-185). *)
(* A timestamp is the number of its bar; the exchange has one bar at every *)
(* timestamp from 0 to cfg.market_end and answers fetch_ohlcv with the     *)
(* first bars at or after since, in ascending order.                       *)
(***************************************************************************)
MaxNow == 4          \* the current time, in bars
MaxPages == 2        \* largest MAX_PAGES
MaxPageLimit == 2    \* largest PAGE_LIMIT
MaxRetries == 1      \* NetworkErrors counted

None == 0 - 1

SeqMaxOrNone(t) == IF t = <<>> THEN None ELSE SetMax({t[j] : j \in 1..Len(t)})

\* ccxt_ingest.choose_start_ms
choose_start_ms(last_ts_in_table, c) ==
    IF c.FORCE_FROM # None THEN c.FORCE_FROM
    ELSE IF last_ts_in_table # None THEN last_ts_in_table + 1
    ELSE IF c.BACKFILL_START # None THEN c.BACKFILL_START
    ELSE c.now - c.BACKFILL_DAYS

\* binance_ingest, lines 102-109
binance_start_ms(last_ts_in_table, c) ==
    IF last_ts_in_table # None THEN last_ts_in_table ELSE c.now - c.BACKFILL_DAYS

\* ex.fetch_ohlcv(symbol, timeframe=timeframe, since=since, limit=limit)
fetch_ohlcv(since, limit, c) ==
    LET n == IF c.market_end - since + 1 < limit THEN c.market_end - since + 1 ELSE limit
    IN  [j \in 1..n |-> since + j - 1]

\* since_ms = last_ts + bar_ms
SameSince(last_ts) == last_ts
NextSince(last_ts) == last_ts + 1

\* "if MAX_PAGES and pages >= MAX_PAGES: break"
MaxPagesReached == cfg.MAX_PAGES # 0 /\ pages >= cfg.MAX_PAGES

\* the stop after a loaded page: ccxt_ingest line 228, binance_ingest line 181
StopAfterPage(v, since, batch, c) ==
    IF v = "ccxt" THEN since >= c.now - 1 ELSE Len(batch) < c.PAGE_LIMIT

Environment(max_pages, page_limit, force_from, backfill_start, backfill_days, end) ==
    [MAX_PAGES |-> max_pages, PAGE_LIMIT |-> page_limit, FORCE_FROM |-> force_from,
     BACKFILL_START |-> backfill_start, BACKFILL_DAYS |-> backfill_days,
     now |-> MaxNow, market_end |-> end]

\* a job starts on a table that holds the bars 0..l of an earlier run (none
\* when l = None); FORCE_FROM and BACKFILL_START are read by ccxt_ingest only
Job(v, c, l) ==
    /\ BarsIdle
    /\ SimIdle
    /\ CliIdle
    /\ ApiIdle
    /\ variant = v
    /\ cfg = c
    /\ table = [j \in 1..(l + 1) |-> j - 1]
    /\ last = None
    /\ since_ms = 0
    /\ pages = 0
    /\ ipc = "start"
    /\ retries = 0
    /\ asked = <<>>

InitIngest ==
    \E max_pages \in 0..MaxPages, page_limit \in 1..MaxPageLimit,
       end \in 1..MaxNow, backfill_days \in {1, MaxNow} :
        \E l \in None..end :
            \/ \E force_from \in {None, 0}, backfill_start \in {None, 1} :
                    Job("ccxt", Environment(max_pages, page_limit, force_from,
                                            backfill_start, backfill_days, end), l)
            \/ Job("binance", Environment(max_pages, page_limit, None, None,
                                          backfill_days, end), l)

\* ccxt_ingest lines 166-183, binance_ingest lines 102-112
IngestStart ==
    /\ ipc = "start"
    /\ last' = SeqMaxOrNone(table)
    /\ since_ms' = IF variant = "ccxt" THEN choose_start_ms(last', cfg)
                   ELSE binance_start_ms(last', cfg)
    /\ pages' = 0
    /\ ipc' = "loop"
    /\ UNCHANGED <<clivars, apivars, barvars, simvars, variant, cfg, table, retries, asked>>

\* the loop is left at its top: MAX_PAGES pages were loaded
IngestMaxPages ==
    /\ ipc = "loop"
    /\ MaxPagesReached
    /\ ipc' = "done"
    /\ UNCHANGED <<clivars, apivars, barvars, simvars, variant, cfg, table, last,
                   since_ms, pages, retries, asked>>

\* fetch_ohlcv raises ccxt.NetworkError: sleep and retry
IngestNetworkError ==
    /\ ipc = "loop"
    /\ ~MaxPagesReached
    /\ retries' = IF retries < MaxRetries THEN retries + 1 ELSE retries
    /\ UNCHANGED <<clivars, apivars, barvars, simvars, variant, cfg, table, last,
                   since_ms, pages, ipc, asked>>

\* fetch_ohlcv raises ccxt.ExchangeError: break
IngestExchangeError ==
    /\ ipc = "loop"
    /\ ~MaxPagesReached
    /\ ipc' = "done"
    /\ UNCHANGED <<clivars, apivars, barvars, simvars, variant, cfg, table, last,
                   since_ms, pages, retries, asked>>

\* fetch_ohlcv returns: an empty batch ends the loop, any other is loaded
IngestPage ==
    /\ ipc = "loop"
    /\ ~MaxPagesReached
    /\ LET batch == fetch_ohlcv(since_ms, cfg.PAGE_LIMIT, cfg)
       IN  IF batch = <<>>
           THEN /\ ipc' = "done"
                /\ UNCHANGED <<table, since_ms, pages, asked>>
           ELSE /\ pages' = pages + 1
                /\ table' = table \o batch
                /\ asked' = Append(asked, since_ms)
                /\ since_ms' = NextSince(batch[Len(batch)])
                /\ ipc' = IF StopAfterPage(variant, since_ms', batch, cfg)
                          THEN "done" ELSE "loop"
    /\ UNCHANGED <<clivars, apivars, barvars, simvars, variant, cfg, last, retries>>

NextIngest ==
    \/ IngestStart
    \/ IngestMaxPages
    \/ IngestNetworkError
    \/ IngestExchangeError
    \/ IngestPage

SpecIngest == InitIngest /\ [][NextIngest]_vars

\* the job is scheduled, and fetch_ohlcv does not raise NetworkError forever
SpecIngestFair ==
    /\ SpecIngest
    /\ WF_vars(IngestStart)
    /\ WF_vars(IngestMaxPages)
    /\ WF_vars(IngestPage)

(***************************************************************************)
(* What the claims on the backtest speak of.                               *)
(***************************************************************************)
\* the simulator has produced its equity series
EquityReady ==
    \/ simulator = "engine" /\ spc \in {"metrics", "done", "error"}
    \/ simulator \in {"buy_hold", "sma_cross"} /\ spc \in {"metrics", "done"}

\* the engine has the returns and the equity its metrics are taken from
EngineMetricsDue ==
    /\ simulator = "engine"
    /\ spc \in {"metrics", "done", "error"}
    /\ equity # <<>>

\* the return realised into bar j (1-based, j > 1) of the simulated prices
BarReturn(j) == FSub(Frac(price[j], price[j - 1]), One)

\* equity[j] = equity[j-1] * (1 + exposure * r[j])
Compounds(j, exposure) ==
    equity[j] = FMul(equity[j - 1], FAdd(One, FMul(exposure, BarReturn(j))))

\* C11: on every simulator path and every non-empty price series the equity
\* series has one value per simulated bar, aligned with the prices, and its
\* first element is the initial cash.
C11_OnePerBar ==
    (EquityReady /\ price # <<>>) =>
        /\ DOMAIN equity = DOMAIN price
        /\ equity[1] = FInt(cash_start)

\* the bookkeeping loop has run over a series whose equity moved
C11_Witness ==
    /\ EquityReady
    /\ simulator = "sma_cross"
    /\ Len(price) >= 4
    /\ Last(equity) # FInt(cash_start)

\* buy and hold of a series whose last close is not its first
C11_BuyHoldWitness ==
    /\ EquityReady
    /\ simulator = "buy_hold"
    /\ Last(price) # price[1]

\* C12: one-bar execution lag of the engine: for every index after the first,
\* equity[i] = equity[i-1] * (1 + pos[i-1] * (price[i]/price[i-1] - 1)) with pos
\* the series the strategy returned, so that the position decided at a bar is
\* not applied to the return realised into that bar.
C12_OneBarLag ==
    (simulator = "engine" /\ EquityReady) =>
        \A j \in 2..Len(equity) : Compounds(j, pos[j - 1])

\* a bar whose position differs from the one before it, on a price that moved
C12_Witness ==
    /\ simulator = "engine"
    /\ EquityReady
    /\ \E j \in 2..Len(equity) :
            /\ pos[j] # pos[j - 1]
            /\ pos[j - 1] # Zero
            /\ price[j] # price[j - 1]

\* C13: at every index the bookkeeping loop of equity_sma_cross holds the
\* equity that compounding the returns gives on the same position series:
\* equity[i] = equity[i-1] * (1 + long[i-1] * r[i]).
C13_BookkeepingIsCompounding ==
    (simulator = "sma_cross" /\ spc \in {"loop", "metrics", "done"}) =>
        /\ \A j \in 2..Len(equity) : Compounds(j, FInt(long[j - 1]))
        /\ equity = SubSeq(Compound(StratRet(AsFloat(long), Ret(price)), cash_start),
                           1, Len(equity))

\* the loop entered, earned a return and liquidated
C13_Witness ==
    /\ simulator = "sma_cross"
    /\ spc = "metrics"
    /\ \E j \in 2..Len(price) - 1 :
            /\ long[j] = 1
            /\ long[j + 1] = 0
            /\ equity[j + 1] # equity[j]

\* the price series of the same length that agree with the simulated one up to
\* bar j (1-based) and are free after it
AgreeUpTo(j) ==
    LET alphabet == Closes \cup {price[m] : m \in 1..Len(price)}
        n == Len(price)
    IN  {[m \in 1..n |-> IF m <= j THEN price[m] ELSE t[m - j]] :
            t \in [1..(n - j) -> alphabet]}

C15_EquityPositive ==
    \A j \in 1..Len(equity) : FLt(Zero, equity[j])

\* a half-invested position over a falling price in the engine
C15_Witness ==
    /\ simulator = "engine"
    /\ EquityReady
    /\ \E j \in 2..Len(equity) :
            /\ pos[j - 1] = <<1, 2>>
            /\ price[j] < price[j - 1]
            /\ FLt(equity[j], equity[j - 1])

\* the position the simulator applies at each bar
Executed == IF simulator = "engine" THEN Shift1Fill(pos, Zero) ELSE AsFloat(long)

\* both rolling windows cover the same observations at bar j (1-based)
SameWindows(j) == sma_fast = sma_slow \/ (j <= sma_fast /\ j <= sma_slow)

SmaCrossRun ==
    \/ simulator = "sma_cross" /\ spc \in {"metrics", "done"}
    \/ simulator = "engine" /\ strategy = "sma_cross" /\ spc \in {"metrics", "done", "error"}

C17_BuyHold ==
    (simulator = "buy_hold" /\ EquityReady) =>
        /\ \A j \in 1..Len(price) : equity[j] = Frac(cash_start * price[j], price[1])
        /\ (price = <<100, 110, 99>> /\ cash_start = 1000) =>
                equity = <<FInt(1000), FInt(1100), FInt(990)>>

C17_Witness ==
    /\ simulator = "buy_hold"
    /\ spc = "done"
    /\ price = <<100, 110, 99>>
    /\ cash_start = 1000

NonDecreasing(eq) == \A j \in 2..Len(eq) : FLe(eq[j - 1], eq[j])

\* the peak of eq[1..j]
Peak(eq, j) == CHOOSE x \in {eq[m] : m \in 1..j} : \A m \in 1..j : FLe(eq[m], x)

\* dd is the least of eq[i] / max(eq[0..i]) - 1, is <= 0, and is 0 exactly
\* when eq is non-decreasing
IsDrawdownOf(dd, eq) ==
    /\ FLe(dd, Zero)
    /\ dd = Zero <=> NonDecreasing(eq)
    /\ \A j \in 1..Len(eq) : FLe(dd, FSub(FDiv(eq[j], Peak(eq, j)), One))
    /\ \E j \in 1..Len(eq) : dd = FSub(FDiv(eq[j], Peak(eq, j)), One)

\* C18: for a strictly positive equity series the max_drawdown of the metrics
\* is the least of equity[i] / max(equity[0..i]) - 1, it is <= 0, and it is 0
\* exactly when the series never falls below its running peak (is
\* non-decreasing); in metrics_from_equity and in lines 51-52 of the engine.
C18_Drawdown ==
    /\ (simulator \in {"buy_hold", "sma_cross"} /\ spc = "done") =>
            IsDrawdownOf(metrics.max_drawdown, equity)
    /\ EngineMetricsDue =>
            IsDrawdownOf(PerfRecord(returns, equity, cash_start, day_step).max_dd, equity)

\* an equity that rose, fell below its peak and ended above its start
C18_Witness ==
    /\ simulator \in {"buy_hold", "sma_cross"}
    /\ spc = "done"
    /\ FLt(metrics.max_drawdown, Zero)
    /\ FLt(equity[1], Last(equity))

\* a rising equity, whose drawdown is 0
C18_RisingWitness ==
    /\ simulator = "buy_hold"
    /\ spc = "done"
    /\ Len(equity) >= 3
    /\ \A j \in 2..Len(equity) : FLt(equity[j - 1], equity[j])
    /\ metrics.max_drawdown = Zero

\* periods of the return series with a return > 0, over all its periods
FractionOfWins(rets) == Frac(CountPositive(rets), Len(rets))

\* C19: the win_rate of the metrics is the number of periods with a return > 0
\* divided by the number of periods of the return series, zero-return periods
\* included, in metrics_from_equity and in _perf_metrics alike.
C19_WinRateOverAllPeriods ==
    /\ (simulator \in {"buy_hold", "sma_cross"} /\ spc = "done" /\ returns # <<>>) =>
            metrics.win_rate = FractionOfWins(returns)
    /\ EngineMetricsDue =>
            PerfRecord(returns, equity, cash_start, day_step).win_rate
                = FractionOfWins(returns)

\* app.py alone keeps to the fraction of all periods
C19_AppWinRate ==
    (simulator \in {"buy_hold", "sma_cross"} /\ spc = "done" /\ returns # <<>>) =>
        metrics.win_rate = FractionOfWins(returns)

\* C20: years is the span of the index in days over 365, and a span <= 0 (one
\* point, or all points within a day) gives cagr = NaN.
C20_NaNOnEmptySpan ==
    EngineMetricsDue =>
        LET m == PerfRecord(returns, equity, cash_start, day_step)
            days == SpanDays(equity, day_step)
        IN  IF days <= 0 THEN m.cagr = NaNPower
            ELSE m.cagr.years = Frac(days, 365)

\* with a span of at least a day the years are days / 365
C20_PositiveSpan ==
    (EngineMetricsDue /\ SpanDays(equity, day_step) > 0) =>
        PerfRecord(returns, equity, cash_start, day_step).cagr.years
            = Frac(SpanDays(equity, day_step), 365)

(***************************************************************************)
(* C27: the account of the bookkeeping loop.                               *)
(***************************************************************************)
\* the loop of equity_sma_cross has processed the bar at 0-based index at - 1
BarProcessed ==
    /\ simulator = "sma_cross"
    /\ spc \in {"loop", "metrics", "done", "error"}
    /\ at >= 2

InCash == units = Zero /\ FLt(Zero, cash)
Invested == FLt(Zero, units) /\ cash = Zero

\* C27: after every bar the bookkeeping loop of equity_sma_cross has
\* processed, the account is either all cash (units = 0, cash > 0) or all
\* invested (units > 0, cash = 0), never both and never neither, and it is
\* invested exactly when the lagged signal of that bar is 1.
C27_CashOrInvested ==
    BarProcessed =>
        /\ InCash \/ Invested
        /\ ~(InCash /\ Invested)
        /\ Invested <=> (long[at] = 1)

\* the loop has entered on one bar and has left on a later one
C27_Witness ==
    /\ BarProcessed
    /\ InCash
    /\ \E j \in 2..(at - 1) : long[j] = 1
    /\ cash # FInt(cash_start)

(***************************************************************************)
(* C26: bar minimality.                                                    *)
(***************************************************************************)
\* the measure accumulated over the k-th run, and over the run without its
\* last source row
RunMeasure(k) == RangeSum(meas, runs[k][1], runs[k][2] - 1)
RunMeasureBefore(k) == RangeSum(meas, runs[k][1], runs[k][2] - 2)

\* the k-th run is the kept tail: the rows after the last close, which stayed
\* under the threshold
IsTail(k) ==
    /\ keep_tail
    /\ k = Len(runs)
    /\ runs[k][2] = N
    /\ RunMeasure(k) < threshold * Den

\* C26: with non-negative measures and a threshold > 0 every bar but a kept
\* tail accumulated at least the threshold over its run and less than the
\* threshold over the run without its last source row; only a kept tail stays
\* under the threshold; in tick mode n_ticks is the sum of trades over the run.
C26_BarMinimality ==
    (Done /\ threshold > 0 /\ \A r \in 1..Len(meas) : meas[r] >= 0) =>
        /\ Len(out) = Len(runs)
        /\ \A k \in 1..Len(runs) :
              /\ IsTail(k) \/ (/\ RunMeasure(k) >= threshold * Den
                                /\ RunMeasureBefore(k) < threshold * Den)
              /\ Tick => out[k].n_ticks =
                            RangeSum(Column(sdf, trades_col), runs[k][1], runs[k][2] - 1)

\* tick bars: a bar of two rows that overshoots the threshold, then a kept tail
C26_Witness ==
    /\ Done
    /\ Tick
    /\ threshold >= 2
    /\ Len(runs) >= 2
    /\ runs[1][2] - runs[1][1] >= 2
    /\ RunMeasure(1) > threshold
    /\ IsTail(Len(runs))
    /\ out[Len(out)].n_ticks >= 1

(***************************************************************************)
(* C21: the annualisation factor.                                          *)
(***************************************************************************)
\* a is the number of sampling intervals of timeframe tf in a year of 365 days
IsPeriodsPerYear(a, tf) ==
    CASE tf.unit = "m" -> a * tf.head = 365 * 24 * 60
      [] tf.unit = "h" -> a * tf.head = 365 * 24
      [] tf.unit = "d" -> a * tf.head = 365
      [] OTHER -> FALSE

\* C21: the factor under the root of a returned sharpe is the number of
\* periods per year of the timeframe of the run (365*24*60/k for k minutes,
\* 365*24/k for k hours, 365/k for k days), on every metrics path.
C21_FactorFromTimeframe ==
    (simulator = "cli" /\ spc = "done" /\ eqidx = Index(close)
        /\ metrics.sharpe # ZeroSharpe) =>
        IsPeriodsPerYear(metrics.sharpe.ann, timeframe)

\* the endpoint of app.py passes periods_per_year(req.timeframe)
C21_AppFactor ==
    (simulator \in {"buy_hold", "sma_cross"} /\ spc = "done"
        /\ metrics.sharpe # ZeroSharpe) =>
        IsPeriodsPerYear(metrics.sharpe.ann, timeframe)

(***************************************************************************)
(* C23: a forecaster that fails internally.                                *)
(***************************************************************************)
\* C23: a run of the engine whose forecaster fails in fit or predict uses the
\* naive forecast and does not fail: it goes on to the equity series and the
\* metrics.
C23_FallbackCompletes ==
    (simulator = "engine" /\ forecaster = FitFails /\ spc # "call") =>
        /\ forecast = NaiveForecast(close, lookback)
        /\ spc # "error"

C22_AmbiguousFrequency ==
    (epc # "idle" /\ timeframe.unit \notin {"m", "h", "d", "w"} /\ spc \in {"done", "error"})
    => serr = "AmbiguousFrequency"

Answered == epc = "done"

\* C25: every response carries the metrics record and the full equity series,
\* one point per bar of the frame, on a cache hit too.
C25_CompleteResponse ==
    Answered =>
        /\ {"sharpe", "win_rate", "max_drawdown", "abs_return", "rel_return", "rmse"}
                \subseteq DOMAIN response.metrics
        /\ Len(response.equity_curve) = Len(close)
        /\ response.equity_curve # <<>>

\* a response to a miss is complete
C25_MissComplete ==
    (Answered /\ Len(calls) > 1) =>
        /\ Len(response.equity_curve) = Len(close)
        /\ response.equity_curve # <<>>
        /\ response.metrics = MetricsDict

\* the table held a row of this descriptor when the request arrived
CacheHit == CachedRows # <<>> /\ \A j \in 1..Len(calls) : calls[j] # "persist_result"

IsPrefix(s, t) == Len(s) <= Len(t) /\ s = SubSeq(t, 1, Len(s))

Persisted == \E j \in 1..Len(calls) : calls[j] = "persist_result"

\* C28: the cache is read first; a hit calls nothing else; a miss loads,
\* predicts, simulates, scores and persists in this order, persist_result
\* once, writing the row under the cache_key of the request; the response
\* of a miss is produced only after persist_result returned without raising.
C28_CacheFirstThenPipeline ==
    /\ calls # <<>> => calls[1] = "fetch_cached"
    /\ (CacheHit /\ epc # "fetch_cached") =>
            /\ calls = <<"fetch_cached">>
            /\ spc = "wait" /\ equity = <<>> /\ preds = <<>>
            /\ Answered
    /\ epc # "idle" =>
            /\ IsPrefix(calls, <<"fetch_cached", "load_ohlcv", "model_predict", "persist_result">>)
            /\ spc # "wait" => IsPrefix(<<"fetch_cached", "load_ohlcv", "model_predict">>, calls)
            /\ Persisted => (spc = "done" /\ Len(equity) = Len(close))
            /\ \A j \in 1..Len(bt_table) : bt_table[j] = OtherRow \/ bt_table[j].id = cache_key
    /\ (Answered /\ ~CacheHit) => (Persisted /\ serr = "")

\* the second request is answered from the row the first one stored
C28_Witness ==
    /\ Answered
    /\ nreq = 2
    /\ CacheHit
    /\ Len(CachedRows) = 1
    /\ Len(bt_table) = 2

\* C28 as stated: a miss is answered only when the row is in the table
C28_RespondsAfterStored ==
    (Answered /\ Persisted) =>
        \E j \in 1..Len(bt_table) :
            bt_table[j].id = cache_key /\ bt_table[j].metrics_json = response.metrics

(***************************************************************************)
(* C29, C30: the ingest loop.                                              *)
(***************************************************************************)
NoTimestampTwice(t) == \A a, b \in 1..Len(t) : a # b => t[a] # t[b]

\* C29: without FORCE_FROM a job that resumes on a table whose latest bar is
\* L asks for its first page with since > L and for every page with since
\* after the last bar loaded, and no timestamp gets into the table twice, in
\* the ccxt job and in the binance job.
C29_NoReload ==
    (ipc \in {"loop", "done"} /\ cfg.FORCE_FROM = None) =>
        /\ NoTimestampTwice(table)
        /\ (last # None /\ asked # <<>>) => asked[1] = last + 1
        /\ \A j \in 2..Len(asked) :
                /\ asked[j] > asked[j - 1]
                /\ \E r \in 1..Len(table) : table[r] = asked[j] - 1

\* the ccxt job keeps to it
C29_CcxtNoReload ==
    (variant = "ccxt" /\ ipc \in {"loop", "done"} /\ cfg.FORCE_FROM = None) =>
        /\ NoTimestampTwice(table)
        /\ (last # None /\ asked # <<>>) => asked[1] = last + 1

Terminated == ipc = "done"

\* C30: if NetworkErrors do not recur forever the loop ends; a loaded page
\* moves since_ms forward; with MAX_PAGES > 0 at most MAX_PAGES pages are
\* loaded; a NetworkError leaves since_ms and the page count as they are.
C30_Terminates ==
    /\ <>Terminated
    /\ [](cfg.MAX_PAGES > 0 => pages <= cfg.MAX_PAGES)
    /\ [][pages' > pages => since_ms' > since_ms]_vars
    /\ [][retries' > retries =>
            (since_ms' = since_ms /\ pages' = pages /\ table' = table /\ ipc' = ipc)]_vars

\* a run that met a NetworkError and ended after MAX_PAGES pages
C30_Witness ==
    /\ Terminated
    /\ retries >= 1
    /\ cfg.MAX_PAGES = 2
    /\ pages = 2
    /\ asked[2] > asked[1]

====
